---- MODULE Spec2Model ----
(***************************************************************************)
(* Page splitting of the EduBtM B+-tree (edubtm_Split.c): the two          *)
(* splitters edubtm_SplitInternal and edubtm_SplitLeaf working on slotted  *)
(* pages held as raw bytes, together with the page store calls they make   *)
(* (btm_AllocPage, edubtm_InitInternal / edubtm_InitLeaf, BfM_GetTrain,    *)
(* BfM_FreeTrain).  Three more specifications cover the in-memory k-d tree *)
(* of kdtree.h: SpecKD the calls on one tree, SpecKDCopy a second tree     *)
(* that is copied from the first, used and destroyed, SpecKNN the nearest  *)
(* neighbour query.                                                        *)
(***************************************************************************)
EXTENDS Integers, Sequences, FiniteSets, TLC

VARIABLES
    pages,    \* the page store: page number -> page
    fixed,    \* the buffer manager's fix count of every page
    ncalls,   \* split calls made so far
    errs,     \* split calls that returned an error so far
    last,     \* the last call: its arguments, what it returned, the store before it
    heap,     \* the malloc'd Nodes of the k-d tree: address -> Node
    head,     \* the Head of the k-d tree: size and root
    klast,    \* the last k-d tree call: its arguments, what it returned, the tree before it
    given,    \* the points handed to insert or operator[] so far
    clone,    \* a second KDTree object: whether it exists, and its Head
    freed,    \* the addresses of the nodes that were freed
    kops      \* calls made on the second object so far

btvars == <<pages, fixed, ncalls, errs, last>>
kdvars == <<heap, head, klast, given>>
cpvars == <<clone, freed, kops>>
vars == <<pages, fixed, ncalls, errs, last, heap, head, klast, given,
          clone, freed, kops>>

----------------------------------------------------------------------------
(* Sizes of the model.                                                      *)

\* largest number of entries of an initial page
MaxN == 4
\* split calls of one run
MaxCalls == 1

\* sizeof(ShortPageID), sizeof(Two), sizeof(ObjectID)
SizeShortPageID == 4
SizeTwo == 2
SizeObjectID == 12
\* width ALIGNED_LENGTH rounds up to
AlignUnit == 4
\* length of the kval buffer of an InternalItem / LeafItem (scaled down)
MAXKEYLEN == 16
\* bytes of a page available to entries and slots (scaled down)
BI_DATASIZE == 48
BL_DATASIZE == 88
\* the half-fill thresholds
BI_HALF == BI_DATASIZE \div 2
BL_HALF == BL_DATASIZE \div 2

NIL == -1
eNOERROR == 0
\* error codes an external call can return (all negative)
ErrCodes == {-2, -1}
\* key lengths used by the entries and items of the model
KeyLens == {2, 4}
\* record counts of the leaf entries of an initial page
ObjCounts == {1, 2}
\* what a freshly pinned buffer frame may hold before it is written:
\* the byte b filling its data area and the stale value s of its slots
PriorFrames == {[b |-> 0, s |-> 0], [b |-> 170, s |-> 6]}
ZeroFrame == [b |-> 0, s |-> 0]
\* places where a call can be made to fail
FailPoints == {"none", "alloc", "init", "pin", "unpin"}

----------------------------------------------------------------------------
(* Bytes: little-endian two's-complement integers, memcpy.                  *)

ALIGNED_LENGTH(l) ==
    IF l % AlignUnit # 0 THEN l + AlignUnit - (l % AlignUnit) ELSE l

\* the i-th byte (0 = lowest) of the integer v
ByteOf(v, i) ==
    IF i = 0 THEN v % 256
    ELSE IF i = 1 THEN (v \div 256) % 256
    ELSE IF i = 2 THEN (v \div 65536) % 256
    ELSE (v \div 16777216) % 256

EncTwo(v)  == <<ByteOf(v, 0), ByteOf(v, 1)>>
EncFour(v) == <<ByteOf(v, 0), ByteOf(v, 1), ByteOf(v, 2), ByteOf(v, 3)>>

Signed(b) == IF b >= 128 THEN b - 256 ELSE b

\* a byte of a buffer (0-based address); -1 stands for a byte outside it
ByteAt(mem, a) == IF a >= 0 /\ a < Len(mem) THEN mem[a + 1] ELSE -1

\* the len bytes of mem starting at 0-based address a
Bytes(mem, a, len) ==
    IF a >= 0 /\ a + len <= Len(mem) THEN SubSeq(mem, a + 1, a + len)
    ELSE [x \in 1..len |-> ByteAt(mem, a + x - 1)]

DecTwo(mem, a) == ByteAt(mem, a) + 256 * Signed(ByteAt(mem, a + 1))
DecFour(mem, a) ==
    ByteAt(mem, a) + 256 * ByteAt(mem, a + 1) + 65536 * ByteAt(mem, a + 2)
        + 16777216 * Signed(ByteAt(mem, a + 3))

\* memcpy(mem + a, src, Len(src))
memcpy(mem, a, src) ==
    IF a >= 0 /\ a + Len(src) <= Len(mem)
    THEN SubSeq(mem, 1, a) \o src \o SubSeq(mem, a + Len(src) + 1, Len(mem))
    ELSE [x \in 1..Len(mem) |->
            IF x - 1 >= a /\ x - 1 < a + Len(src) THEN src[x - a] ELSE mem[x]]

Fill(len, b) == [x \in 1..len |-> b]

----------------------------------------------------------------------------
(* Items and entries.                                                       *)

\* the bytes of an InternalItem {spid; klen; kval[MAXKEYLEN]}
InternalItemBytes(item) == EncFour(item.spid) \o EncTwo(item.klen) \o item.kval

\* the bytes of a LeafItem from its nObjects field on: {nObjects; klen; kval[MAXKEYLEN]}
LeafItemBytes(item) == EncTwo(item.nObjects) \o EncTwo(item.klen) \o item.kval

\* the InternalItem found in the bytes b
InternalItemOf(b) ==
    [spid |-> DecFour(b, 0), klen |-> DecTwo(b, SizeShortPageID),
     kval |-> Bytes(b, SizeShortPageID + SizeTwo, MAXKEYLEN)]

\* a key of klen bytes, all equal to v, in a kval buffer
KeyBuf(v, klen) == [x \in 1..MAXKEYLEN |-> IF x <= klen THEN v ELSE 0]

\* the bytes of an ObjectID {pageNo; volNo; slotNo; unique}
OidBytes(oid) ==
    EncFour(oid.pageNo) \o EncTwo(oid.volNo) \o EncTwo(oid.slotNo) \o EncFour(oid.unique)

\* the internal entry stored at offset off of a page's data area
InternalEntryAt(data, off) ==
    LET klen == DecTwo(data, off + SizeShortPageID)
    IN  [spid |-> DecFour(data, off), klen |-> klen,
         kval |-> Bytes(data, off + SizeShortPageID + SizeTwo, klen)]

\* the leaf entry stored at offset off of a page's data area
LeafEntryAt(data, off) ==
    LET nObjects == DecTwo(data, off)
        klen     == DecTwo(data, off + SizeTwo)
        oidStart == off + 2 * SizeTwo + ALIGNED_LENGTH(klen)
    IN  [nObjects |-> nObjects, klen |-> klen,
         kval |-> Bytes(data, off + 2 * SizeTwo, klen),
         oids |-> [t \in 1..nObjects |->
                      Bytes(data, oidStart + (t - 1) * SizeObjectID, SizeObjectID)]]

\* the entries of a page in slot order
Entries(page) ==
    [s \in 1..page.nSlots |->
        IF page.type = "internal" THEN InternalEntryAt(page.data, page.slot[s])
        ELSE LeafEntryAt(page.data, page.slot[s])]

\* the entry an item stands for
InternalEntryOfItem(item) ==
    [spid |-> item.spid, klen |-> item.klen, kval |-> SubSeq(item.kval, 1, item.klen)]
LeafEntryOfItem(item) ==
    [nObjects |-> item.nObjects, klen |-> item.klen,
     kval |-> SubSeq(item.kval, 1, item.klen), oids |-> <<item.oid>>]

----------------------------------------------------------------------------
(* Pages.                                                                   *)

SlotCap == MaxN + 1

DataSize(type) == IF type = "internal" THEN BI_DATASIZE ELSE BL_DATASIZE

\* the state of a page after edubtm_InitInternal / edubtm_InitLeaf: the header
\* is set, the data area and the slots keep what the buffer frame held
InitPage(type, pid, frame) ==
    [type |-> type, pid |-> pid, nSlots |-> 0, free |-> 0, p0 |-> NIL,
     prevPage |-> NIL, nextPage |-> NIL,
     data |-> Fill(DataSize(type), frame.b), slot |-> Fill(SlotCap, frame.s)]

\* a page that was allocated but never initialised
RawPage(pid) ==
    [type |-> "raw", pid |-> pid, nSlots |-> 0, free |-> 0, p0 |-> NIL,
     prevPage |-> NIL, nextPage |-> NIL, data |-> <<>>, slot |-> <<>>]

\* bytes of a well-formed internal entry (key padded to its aligned length)
InternalEntryBytes(spid, klen, v) ==
    EncFour(spid) \o EncTwo(klen) \o SubSeq(KeyBuf(v, klen), 1, ALIGNED_LENGTH(klen))

\* bytes of a well-formed leaf entry with c record pointers
LeafEntryBytes(c, klen, v, i) ==
    LET oid(t) == OidBytes([pageNo |-> 200 + i, volNo |-> 1, slotNo |-> t, unique |-> i])
        RECURSIVE oids(_)
        oids(t) == IF t > c THEN <<>> ELSE oid(t) \o oids(t + 1)
    IN  EncTwo(c) \o EncTwo(klen) \o SubSeq(KeyBuf(v, klen), 1, ALIGNED_LENGTH(klen))
            \o oids(1)

\* a well-formed page of n entries with keys 10, 20, ..., laid out contiguously
RECURSIVE Layout(_, _, _, _)
Layout(page, ebytes, i, n) ==
    IF i > n THEN page
    ELSE Layout([page EXCEPT !.data = memcpy(@, page.free, ebytes[i]),
                             !.slot[i] = page.free,
                             !.free = @ + Len(ebytes[i]),
                             !.nSlots = i],
                ebytes, i + 1, n)

MkInternal(pid, n, klen) ==
    LET p == Layout(InitPage("internal", pid, ZeroFrame),
                    [i \in 1..n |-> InternalEntryBytes(100 + i, klen, 10 * i)], 1, n)
    IN  [p EXCEPT !.p0 = 100]

\* an internal page whose i-th key is klens[i] bytes long
MkInternalKeys(pid, klens) ==
    LET p == Layout(InitPage("internal", pid, ZeroFrame),
                    [i \in 1..Len(klens) |->
                        InternalEntryBytes(100 + i, klens[i], 10 * i)],
                    1, Len(klens))
    IN  [p EXCEPT !.p0 = 100]

MkLeaf(pid, n, klen, c, base, prev, next) ==
    LET p == Layout(InitPage("leaf", pid, ZeroFrame),
                    [i \in 1..n |-> LeafEntryBytes(c, klen, base + 10 * i, i)], 1, n)
    IN  [p EXCEPT !.prevPage = prev, !.nextPage = next]

\* bytes a page occupies: entries plus one slot per entry
Occupied(page) == page.free + page.nSlots * SizeTwo

----------------------------------------------------------------------------
(* edubtm_SplitInternal: the redistribution loop.                           *)

\* which entry the i-th round copies: the 0-based slot of the snapshot, or
\* -1 for the new item
Pick(i, high) ==
    IF i + 1 < high THEN i ELSE IF i + 1 = high THEN -1 ELSE i - 1

ToFpage_OnceHalfFull(sum, half) == sum >= half
ToFpage_AtMost(sum, half) == sum <= half
\* the round stores on fpage while the filled size is below the half
ToFpage(sum, half) == sum < half

\* entry lengths as the four branches of the internal loop compute them
IOldLenF(klen)  == SizeShortPageID + SizeTwo + klen
IItemLenF(klen) == SizeShortPageID + SizeTwo + ALIGNED_LENGTH(klen)
IOldLenN(klen)  == SizeShortPageID + SizeTwo + klen
IItemLenN(klen) == SizeShortPageID + SizeTwo + klen

LoopStart_StaleSum(fpage, npage) ==
    [f |-> fpage, n |-> npage, j |-> 0, k |-> 0, sum |-> npage.slot[1],
     fEntryOffset |-> 0, nEntryOffset |-> 0]
\* the loop state before the first round
LoopStart(fpage, npage) ==
    [f |-> fpage, n |-> npage, j |-> 0, k |-> 0, sum |-> 0,
     fEntryOffset |-> 0, nEntryOffset |-> 0]

\* appends the bytes of one entry to fpage / to npage
AppendF(st, bytes, entryLen) ==
    [st EXCEPT !.f.data = memcpy(@, st.fEntryOffset, bytes),
               !.f.slot[st.j + 1] = st.fEntryOffset,
               !.f.free = st.fEntryOffset + entryLen,
               !.fEntryOffset = @ + entryLen,
               !.j = @ + 1,
               !.sum = @ + entryLen + SizeTwo]
AppendN(st, bytes, entryLen) ==
    [st EXCEPT !.n.data = memcpy(@, st.nEntryOffset, bytes),
               !.n.slot[st.k + 1] = st.nEntryOffset,
               !.n.free = st.nEntryOffset + entryLen,
               !.nEntryOffset = @ + entryLen,
               !.k = @ + 1,
               !.sum = @ + entryLen + SizeTwo]

\* one round of the internal loop; tpage is the snapshot of fpage
InternalRound(st, tpage, i, high, item) ==
    LET which  == Pick(i, high)
        off    == tpage.slot[which + 1]
        klen   == DecTwo(tpage.data, off + SizeShortPageID)
        toF    == ToFpage(st.sum, BI_HALF)
        entryLen ==
            IF which = -1
            THEN (IF toF THEN IItemLenF(item.klen) ELSE IItemLenN(item.klen))
            ELSE (IF toF THEN IOldLenF(klen) ELSE IOldLenN(klen))
        bytes ==
            IF which = -1 THEN Bytes(InternalItemBytes(item), 0, entryLen)
            ELSE Bytes(tpage.data, off, entryLen)
    IN  IF toF THEN AppendF(st, bytes, entryLen) ELSE AppendN(st, bytes, entryLen)

RECURSIVE InternalLoop(_, _, _, _, _, _)
InternalLoop(st, tpage, i, maxLoop, high, item) ==
    IF i >= maxLoop THEN st
    ELSE InternalLoop(InternalRound(st, tpage, i, high, item),
                      tpage, i + 1, maxLoop, high, item)

InternalP0_SecondSlot(npage) == DecFour(npage.data, npage.slot[2])
\* npage->hdr.p0 = nEntry->spid, with nEntry = npage->data + npage->slot[0]
InternalP0(npage) == DecFour(npage.data, npage.slot[1])

\* a splitter that stores the index of the last slot instead of the slot count
FpageSlots_LastIndex(j) == j - 1

\* slot counts written after the loop
FpageSlots(j) == j

NpageSlots(k) == k

\* memcpy(ritem, nEntry, sizeof(InternalItem))
InternalRitem(npage) ==
    InternalItemOf(Bytes(npage.data, npage.slot[1],
                         SizeShortPageID + SizeTwo + MAXKEYLEN))

\* fpage, npage and ritem as a successful run of the internal splitter leaves them
InternalSplit(fpage, npage0, high, item) ==
    LET st == InternalLoop(LoopStart(fpage, npage0), fpage, 0, fpage.nSlots + 1,
                           high, item)
        np == [st.n EXCEPT !.p0 = InternalP0(st.n), !.nSlots = NpageSlots(st.k)]
        fp == [st.f EXCEPT !.nSlots = FpageSlots(st.j)]
    IN  [f |-> fp, n |-> np, ritem |-> InternalRitem(np), j |-> st.j, k |-> st.k]

----------------------------------------------------------------------------
(* edubtm_SplitLeaf: the redistribution loop, the chain, the up-entry.      *)

\* entry lengths as the branches of the leaf loop compute them
LOldLen(klen)  == 2 * SizeTwo + ALIGNED_LENGTH(klen) + SizeObjectID
LItemLen(klen) == 2 * SizeTwo + ALIGNED_LENGTH(klen)

LeafRound(st, tpage, i, high, item) ==
    LET which  == Pick(i, high)
        off    == tpage.slot[which + 1]
        klen   == DecTwo(tpage.data, off + SizeTwo)
        toF    == ToFpage(st.sum, BL_HALF)
        entryLen ==
            IF which = -1 THEN LItemLen(item.klen) + SizeObjectID ELSE LOldLen(klen)
        bytes ==
            IF which = -1
            THEN Bytes(LeafItemBytes(item), 0, LItemLen(item.klen)) \o item.oid
            ELSE Bytes(tpage.data, off, entryLen)
    IN  IF toF THEN AppendF(st, bytes, entryLen) ELSE AppendN(st, bytes, entryLen)

RECURSIVE LeafLoop(_, _, _, _, _, _)
LeafLoop(st, tpage, i, maxLoop, high, item) ==
    IF i >= maxLoop THEN st
    ELSE LeafLoop(LeafRound(st, tpage, i, high, item),
                  tpage, i + 1, maxLoop, high, item)

\* a splitter that ends the list at the sibling
LinkNext_Nil(fpage, npage) == NIL

\* a splitter that takes the up-entry's spid from the bytes of the first entry
LeafRitemSpid_FromEntry(npage) == DecFour(npage.data, npage.slot[1])

\* the three assignments that insert npage into the doubly linked list
LinkPrev(fpage, npage) == fpage.pid

LinkNext(fpage, npage) == fpage.nextPage

LinkFpageNext(fpage, npage) == npage.pid

\* ritem->spid = npage->hdr.pid.pageNo
LeafRitemSpid(npage) == npage.pid

\* memcpy(&ritem->klen, &nEntry->klen, sizeof(InternalItem) - sizeof(ShortPageID))
LeafRitem(npage) ==
    LET off == npage.slot[1]
    IN  [spid |-> LeafRitemSpid(npage),
         klen |-> DecTwo(npage.data, off + SizeTwo),
         kval |-> Bytes(npage.data, off + 2 * SizeTwo, MAXKEYLEN)]

LeafSplit(fpage, npage0, high, item) ==
    LET st == LeafLoop(LoopStart(fpage, npage0), fpage, 0, fpage.nSlots + 1,
                       high, item)
        f1 == [st.f EXCEPT !.nSlots = FpageSlots(st.j)]
        n1 == [st.n EXCEPT !.nSlots = NpageSlots(st.k)]
        n2 == [n1 EXCEPT !.prevPage = LinkPrev(f1, n1), !.nextPage = LinkNext(f1, n1)]
        f2 == [f1 EXCEPT !.nextPage = LinkFpageNext(f1, n2)]
    IN  [f |-> f2, n |-> n2, ritem |-> LeafRitem(n2), j |-> st.j, k |-> st.k]

----------------------------------------------------------------------------
(* The calls a splitter makes, and the two splitters as actions.            *)

\* an error exit that hands back one fixed code
ERR_Fixed(e) == -1

\* a splitter that returns from a successful run without BfM_FreeTrain
CallLog_NoRelease(init, fail, e) ==
    LET alloc == [call |-> "btm_AllocPage", e |-> IF fail = "alloc" THEN e ELSE eNOERROR]
        ini   == [call |-> init,            e |-> IF fail = "init"  THEN e ELSE eNOERROR]
        pin   == [call |-> "BfM_GetTrain",  e |-> IF fail = "pin"   THEN e ELSE eNOERROR]
        unpin == [call |-> "BfM_FreeTrain", e |-> IF fail = "unpin" THEN e ELSE eNOERROR]
    IN  IF fail = "alloc" THEN <<alloc>>
        ELSE IF fail = "init" THEN <<alloc, ini>>
        ELSE IF fail \in {"pin", "none"} THEN <<alloc, ini, pin>>
        ELSE <<alloc, ini, pin, unpin>>

\* ERR(e): the error code is handed back to the caller
ERR(e) == e

\* the page number btm_AllocPage hands out
AllocPage(store) == Cardinality(DOMAIN store) + 1

\* the external calls one run makes, in order, each with the code it returned;
\* fail is the call that returns the error e ("none": no call fails)
CallLog(init, fail, e) ==
    LET alloc == [call |-> "btm_AllocPage", e |-> IF fail = "alloc" THEN e ELSE eNOERROR]
        ini   == [call |-> init,            e |-> IF fail = "init"  THEN e ELSE eNOERROR]
        pin   == [call |-> "BfM_GetTrain",  e |-> IF fail = "pin"   THEN e ELSE eNOERROR]
        unpin == [call |-> "BfM_FreeTrain", e |-> IF fail = "unpin" THEN e ELSE eNOERROR]
    IN  IF fail = "alloc" THEN <<alloc>>
        ELSE IF fail = "init" THEN <<alloc, ini>>
        ELSE IF fail = "pin" THEN <<alloc, ini, pin>>
        ELSE <<alloc, ini, pin, unpin>>

StoreAfter_RelinkNext(store, p, newPid, npage0, r, fail) ==
    IF fail = "alloc" THEN store
    ELSE [q \in DOMAIN store \cup {newPid} |->
            IF q = newPid
            THEN (IF fail = "init" THEN RawPage(newPid)
                  ELSE IF fail = "pin" THEN npage0 ELSE r.n)
            ELSE IF q = p /\ fail \in {"none", "unpin"} THEN r.f
            ELSE IF q = store[p].nextPage /\ fail \in {"none", "unpin"}
                 THEN [store[q] EXCEPT !.prevPage = newPid]
            ELSE store[q]]
StoreAfter_WriteBeforePin(store, p, newPid, npage0, r, fail) ==
    IF fail = "alloc" THEN store
    ELSE [q \in DOMAIN store \cup {newPid} |->
            IF q = newPid
            THEN (IF fail = "init" THEN RawPage(newPid)
                  ELSE IF fail = "pin" THEN npage0 ELSE r.n)
            ELSE IF q = p /\ fail \in {"pin", "none", "unpin"} THEN r.f
            ELSE store[q]]
\* the store after a run that got as far as the failing call
StoreAfter(store, p, newPid, npage0, r, fail) ==
    IF fail = "alloc" THEN store
    ELSE [q \in DOMAIN store \cup {newPid} |->
            IF q = newPid
            THEN (IF fail = "init" THEN RawPage(newPid)
                  ELSE IF fail = "pin" THEN npage0 ELSE r.n)
            ELSE IF q = p /\ fail \in {"none", "unpin"} THEN r.f
            ELSE store[q]]

FixedAfter_LeftPinned(fix, newPid, fail) ==
    IF fail = "alloc" THEN fix
    ELSE [q \in DOMAIN fix \cup {newPid} |->
            IF q = newPid THEN (IF fail \in {"none", "unpin"} THEN 1 ELSE 0)
            ELSE fix[q]]
\* the fix counts after the run: BfM_GetTrain fixes npage, BfM_FreeTrain unfixes it
FixedAfter(fix, newPid, fail) ==
    IF fail = "alloc" THEN fix
    ELSE [q \in DOMAIN fix \cup {newPid} |->
            IF q = newPid THEN (IF fail = "unpin" THEN 1 ELSE 0) ELSE fix[q]]

\* what the caller's ritem buffer holds before the call
RitemInit == [spid |-> NIL, klen |-> 0, kval |-> Fill(MAXKEYLEN, 0)]

Split(op, p, high, item, fail, e, frame) ==
    LET fpage  == pages[p]
        type   == IF op = "edubtm_SplitInternal" THEN "internal" ELSE "leaf"
        init   == IF op = "edubtm_SplitInternal" THEN "edubtm_InitInternal"
                  ELSE "edubtm_InitLeaf"
        newPid == AllocPage(pages)
        npage0 == InitPage(type, newPid, frame)
        r      == IF op = "edubtm_SplitInternal"
                  THEN InternalSplit(fpage, npage0, high, item)
                  ELSE LeafSplit(fpage, npage0, high, item)
        done   == fail \in {"none", "unpin"}
    IN  /\ ncalls < MaxCalls
        /\ pages[p].type = type
        /\ high \in 1..(fpage.nSlots + 1)
        /\ pages' = StoreAfter(pages, p, newPid, npage0, r, fail)
        /\ fixed' = FixedAfter(fixed, newPid, fail)
        /\ ncalls' = ncalls + 1
        /\ errs' = IF fail = "none" THEN errs ELSE errs + 1
        /\ UNCHANGED <<kdvars, cpvars>>
        /\ last' = [op |-> op, fpid |-> p, high |-> high, item |-> item,
                    fail |-> fail,
                    e |-> IF fail = "none" THEN eNOERROR ELSE ERR(e),
                    newPid |-> IF fail = "alloc" THEN NIL ELSE newPid,
                    ritem |-> IF done THEN r.ritem ELSE RitemInit,
                    calls |-> CallLog(init, fail, e),
                    j |-> IF done THEN r.j ELSE 0,
                    k |-> IF done THEN r.k ELSE 0,
                    pre |-> pages]

\* the items the callers hand in: the key of the item inserted at high lies
\* between the keys of its neighbours
NewInternalItem(high, klen) ==
    [spid |-> 150 + high, klen |-> klen, kval |-> KeyBuf(10 * high - 5, klen)]
NewLeafItem(high, klen) ==
    [oid |-> OidBytes([pageNo |-> 250 + high, volNo |-> 1, slotNo |-> 9, unique |-> 77]),
     nObjects |-> 1, klen |-> klen, kval |-> KeyBuf(10 * high - 5, klen)]

edubtm_SplitInternal ==
    \E p \in DOMAIN pages, high \in 1..(MaxN + 2), klen \in KeyLens,
       fail \in FailPoints, e \in ErrCodes, frame \in PriorFrames :
        /\ fail = "none" => e = -1
        /\ fail # "none" => frame = ZeroFrame
        /\ Split("edubtm_SplitInternal", p, high, NewInternalItem(high, klen),
                 fail, e, frame)

edubtm_SplitLeaf ==
    \E p \in DOMAIN pages, high \in 1..(MaxN + 2), klen \in KeyLens,
       fail \in FailPoints, e \in ErrCodes, frame \in PriorFrames :
        /\ fail = "none" => e = -1
        /\ fail # "none" => frame = ZeroFrame
        /\ Split("edubtm_SplitLeaf", p, high, NewLeafItem(high, klen),
                 fail, e, frame)

\* the initial stores: one internal page, or a chain of one or two leaves;
\* every page respects the page layout and fits its data area
Fits(page) == Occupied(page) <= DataSize(page.type)

MixedKeyLens == {<<12, 16>>}

InitStores ==
    {[q \in {1} |-> MkInternal(1, n, klen)] : n \in 1..MaxN, klen \in KeyLens}
    \cup {[q \in {1} |-> MkInternalKeys(1, klens)] : klens \in MixedKeyLens}
    \cup {[q \in {1} |-> MkLeaf(1, n, klen, c, 0, NIL, NIL)] :
            n \in 1..MaxN, klen \in KeyLens, c \in ObjCounts}
    \cup {[q \in {1, 2} |-> IF q = 1 THEN MkLeaf(1, n, klen, 1, 0, NIL, 2)
                            ELSE MkLeaf(2, 1, klen, 1, 80, 1, NIL)] :
            n \in 1..MaxN, klen \in KeyLens}

NoCall ==
    [op |-> "none", fpid |-> NIL, high |-> 0, item |-> RitemInit, fail |-> "none",
     e |-> eNOERROR, newPid |-> NIL, ritem |-> RitemInit, calls |-> <<>>,
     j |-> 0, k |-> 0, pre |-> <<>>]

\* KDTree::KDTree(): no node, size 0
NULL == 0
NoKDCall == [op |-> "none", point |-> <<>>, value |-> 0, ret |-> NULL,
             pre |-> [heap |-> <<>>, head |-> [size |-> 0, root |-> NULL]]]
KDTree ==
    /\ heap = <<>>
    /\ head = [size |-> 0, root |-> NULL]
    /\ klast = NoKDCall
    /\ given = {}

\* no second KDTree object has been declared
NoClone ==
    /\ clone = [state |-> "none", head |-> [size |-> 0, root |-> NULL]]
    /\ freed = {}
    /\ kops = 0

Init ==
    /\ pages \in {st \in InitStores : \A q \in DOMAIN st : Fits(st[q])}
    /\ fixed = [q \in DOMAIN pages |-> 0]
    /\ ncalls = 0
    /\ errs = 0
    /\ last = NoCall
    /\ KDTree
    /\ NoClone

Next == edubtm_SplitInternal \/ edubtm_SplitLeaf

\* the shape of the state
TypeOK ==
    /\ DOMAIN pages = 1..Cardinality(DOMAIN pages)
    /\ \A q \in DOMAIN pages :
          /\ pages[q].pid = q
          /\ pages[q].type \in {"internal", "leaf", "raw"}
          /\ pages[q].nSlots \in 0..SlotCap
          /\ pages[q].type # "raw" => Len(pages[q].data) = DataSize(pages[q].type)
          /\ \A a \in 1..Len(pages[q].data) : pages[q].data[a] \in 0..255
    /\ DOMAIN fixed = DOMAIN pages
    /\ \A q \in DOMAIN fixed : fixed[q] \in {0, 1}
    /\ ncalls \in 0..MaxCalls
    /\ errs \in 0..ncalls
    /\ last.e \in ErrCodes \cup {eNOERROR}

Spec == Init /\ [][Next]_vars

----------------------------------------------------------------------------
(* Vocabulary of the properties.                                            *)

Called(op)   == last.op = op
Returned     == last.op # "none"
Succeeded    == Returned /\ last.fail = "none"
Failed       == Returned /\ last.fail # "none"

\* the source page before and after the last call, the sibling after it
PreFpage == last.pre[last.fpid]
Fpage    == pages[last.fpid]
Npage    == pages[last.newPid]

\* seq with x inserted at the 1-based position pos
InsertAt(seq, pos, x) ==
    SubSeq(seq, 1, pos - 1) \o <<x>> \o SubSeq(seq, pos, Len(seq))

\* the new item of the last call as an entry
ItemEntry ==
    IF Called("edubtm_SplitInternal") THEN InternalEntryOfItem(last.item)
    ELSE LeafEntryOfItem(last.item)

\* the n + 1 merged entries of the last call
Merged == InsertAt(Entries(PreFpage), last.high, ItemEntry)

\* the leaves of the store and the walks along their links
Leaves == {q \in DOMAIN pages : pages[q].type = "leaf"}

RECURSIVE WalkNext(_, _)
WalkNext(q, fuel) ==
    IF q = NIL \/ fuel = 0 \/ q \notin DOMAIN pages THEN <<>>
    ELSE <<q>> \o WalkNext(pages[q].nextPage, fuel - 1)

RECURSIVE WalkPrev(_, _)
WalkPrev(q, fuel) ==
    IF q = NIL \/ fuel = 0 \/ q \notin DOMAIN pages THEN <<>>
    ELSE <<q>> \o WalkPrev(pages[q].prevPage, fuel - 1)

Reverse(seq) == [x \in 1..Len(seq) |-> seq[Len(seq) + 1 - x]]
Range(seq) == {seq[x] : x \in 1..Len(seq)}

\* the first leaf of the tree: the one without a previous leaf
FirstLeaf == CHOOSE q \in Leaves : pages[q].prevPage = NIL
Forward  == WalkNext(FirstLeaf, Cardinality(Leaves) + 1)
Backward == WalkPrev(Forward[Len(Forward)], Cardinality(Leaves) + 1)

ForwardChainOk  == Len(Forward) = Cardinality(Leaves) /\ Range(Forward) = Leaves
BackwardChainOk == Backward = Reverse(Forward)

----------------------------------------------------------------------------
(* C1..C10                                                                  *)

\* C1: after successful leaf splits only, walking nextPage from the first leaf
\* visits every leaf exactly once and ends at a null link, and walking prevPage
\* from the last leaf visits the same leaves in the reverse order.
C1_LeafChainIntegrity ==
    (Leaves # {} /\ errs = 0) => (ForwardChainOk /\ BackwardChainOk)

\* C2: after a successful internal split the up-entry carries the sibling's page
\* number as its spid and the key of the sibling's slot 0 as its key.
C2_InternalUpEntry ==
    (Called("edubtm_SplitInternal") /\ Succeeded /\ last.k >= 1) =>
        /\ last.ritem.spid = last.newPid
        /\ last.ritem.klen = Entries(Npage)[1].klen
        /\ SubSeq(last.ritem.kval, 1, last.ritem.klen) = Entries(Npage)[1].kval

\* C3: after a successful split the entries of the source page followed by the
\* entries of the sibling are the original entries, in order, with the new item
\* at position high.
C3_OrderPreserved ==
    Succeeded => Entries(Fpage) \o Entries(Npage) = Merged

\* C4: after a successful split the slot counts of the source page and of the
\* sibling add up to the source's slot count on entry plus one.
C4_Conservation ==
    Succeeded => Fpage.nSlots + Npage.nSlots = PreFpage.nSlots + 1

C4_Witness ==
    /\ Called("edubtm_SplitInternal") /\ Succeeded
    /\ PreFpage.nSlots = 4 /\ last.k = 3 /\ Npage.nSlots = 3 /\ Fpage.nSlots = 2

\* C5: after a successful internal split that routed k entries to the sibling,
\* the sibling holds k - 1 keyed entries, the 2nd..k-th routed entries.
C5_LeftmostConsumed ==
    (Called("edubtm_SplitInternal") /\ Succeeded /\ last.k >= 1) =>
        /\ Npage.nSlots = last.k - 1
        /\ Entries(Npage) = SubSeq(Merged, last.j + 2, Len(Merged))

\* C6: after a successful leaf split the sibling's prevPage is the source page,
\* its nextPage is the source's nextPage on entry, and the source's nextPage is
\* the sibling.
C6_LeafLinks ==
    (Called("edubtm_SplitLeaf") /\ Succeeded) =>
        /\ Npage.prevPage = Fpage.pid
        /\ Npage.prevPage = last.fpid
        /\ Npage.nextPage = PreFpage.nextPage
        /\ Fpage.nextPage = Npage.pid
        /\ Fpage.nextPage = last.newPid

\* a leaf that had a next leaf was split and its sibling received no entry
C6_Witness ==
    /\ Called("edubtm_SplitLeaf") /\ Succeeded
    /\ PreFpage.nextPage = 2 /\ last.k = 0 /\ Npage.nextPage = 2


\* the key bytes of an up-entry, and the entry it stands for on an internal
\* page: spid, klen and the key with its padding
RitemKey(ritem)  == SubSeq(ritem.kval, 1, ritem.klen)
RitemEntryBytes(ritem) ==
    EncFour(ritem.spid) \o EncTwo(ritem.klen)
        \o SubSeq(ritem.kval, 1, ALIGNED_LENGTH(ritem.klen))
\* where the record pointers of the sibling's slot 0 start
FirstOidOffset(npage) ==
    npage.slot[1] + 2 * SizeTwo + ALIGNED_LENGTH(Entries(npage)[1].klen)

\* C7: after a successful leaf split whose sibling received an entry, the
\* up-entry has the sibling's page number as spid and the key length and key
\* bytes of the sibling's slot 0; it holds no record pointer of a leaf entry:
\* its fields are a page number, a key length and a key, and the aligned key
\* is taken from the page bytes that end where the record pointers start.
C7_LeafUpEntry ==
    (Called("edubtm_SplitLeaf") /\ Succeeded /\ last.k >= 1) =>
        /\ last.ritem.spid = Npage.pid
        /\ last.ritem.spid = last.newPid
        /\ last.ritem.klen = Entries(Npage)[1].klen
        /\ RitemKey(last.ritem) = Entries(Npage)[1].kval
        /\ InternalEntryOfItem(last.ritem) =
              [spid |-> last.newPid, klen |-> Entries(Npage)[1].klen,
               kval |-> Entries(Npage)[1].kval]
        /\ RitemEntryBytes(last.ritem) =
              EncFour(last.newPid) \o EncTwo(Entries(Npage)[1].klen)
                 \o Bytes(Npage.data, Npage.slot[1] + 2 * SizeTwo,
                          FirstOidOffset(Npage) - (Npage.slot[1] + 2 * SizeTwo))

\* the sibling of a leaf split starts with the new item, whose key is 2 bytes long
C7_Witness ==
    /\ Called("edubtm_SplitLeaf") /\ Succeeded /\ last.k >= 2
    /\ last.j + 1 = last.high
    /\ last.item.klen = 2
    /\ last.ritem.klen = 2
    /\ last.ritem.spid = last.newPid

\* C8: a split that returns an error leaves the source page as it was on entry.
C8_FailureLeavesSource ==
    Failed => Fpage = PreFpage

\* C9: when btm_AllocPage fails the splitter returns that error code, makes no
\* other external call and no second allocation, and the source page (with the
\* whole store) is unchanged.
C9_AllocFailure ==
    (Returned /\ last.calls[1].e < 0) =>
        /\ last.e = last.calls[1].e
        /\ Len(last.calls) = 1
        /\ last.calls[1].call = "btm_AllocPage"
        /\ Fpage = PreFpage
        /\ pages = last.pre

C9_Witness ==
    /\ Returned /\ last.fail = "alloc" /\ last.e = -2
    /\ Called("edubtm_SplitLeaf") /\ PreFpage.nSlots = 4

\* successful pins and unpin calls of the last call
Pins   == {x \in 1..Len(last.calls) :
              last.calls[x].call = "BfM_GetTrain" /\ last.calls[x].e = eNOERROR}
Unpins == {x \in 1..Len(last.calls) : last.calls[x].call = "BfM_FreeTrain"}

\* C10: on every return of a splitter, with or without an error, the number of
\* successful BfM_GetTrain calls it made equals the number of BfM_FreeTrain
\* calls it made.
C10_PinsReleased ==
    Returned => Cardinality(Pins) = Cardinality(Unpins)

C10_Witness ==
    /\ Returned /\ last.fail = "unpin" /\ Cardinality(Pins) = 1
    /\ Called("edubtm_SplitInternal")

----------------------------------------------------------------------------
(* C11..C20                                                                 *)

\* the last external call the last splitter run made
LastCall == last.calls[Len(last.calls)]

\* C11 as claimed: when edubtm_SplitInternal returns successfully the sibling
\* is still pinned: its fix count is positive and the splitter made no
\* BfM_FreeTrain call.
C11_SiblingStillPinned ==
    (Called("edubtm_SplitInternal") /\ Succeeded) =>
        /\ fixed[last.newPid] >= 1
        /\ Unpins = {}

\* C11 as amended: when edubtm_SplitInternal returns successfully it has
\* released the sibling itself: BfM_FreeTrain is its last external call, after
\* the one BfM_GetTrain, and the sibling's fix count is back to zero.
C11_SiblingReleased ==
    (Called("edubtm_SplitInternal") /\ Succeeded) =>
        /\ fixed[last.newPid] = 0
        /\ LastCall = [call |-> "BfM_FreeTrain", e |-> eNOERROR]
        /\ Cardinality(Pins) = 1 /\ Cardinality(Unpins) = 1
        /\ \A x \in Pins, y \in Unpins : x < y

C11_Witness ==
    /\ Called("edubtm_SplitInternal") /\ Succeeded
    /\ last.newPid = 2 /\ last.k >= 1 /\ fixed[2] = 0
    /\ Len(last.calls) = 4

\* the size an entry has in the page layout, and the largest among the merged
\* entries of the last call
InternalEntrySize(en) == SizeShortPageID + SizeTwo + ALIGNED_LENGTH(en.klen)
LeafEntrySize(en) ==
    2 * SizeTwo + ALIGNED_LENGTH(en.klen) + en.nObjects * SizeObjectID
EntrySize(en) ==
    IF Called("edubtm_SplitInternal") THEN InternalEntrySize(en)
    ELSE LeafEntrySize(en)
MaxOf(S) == CHOOSE x \in S : \A y \in S : y <= x
MaxEntrySize == MaxOf({EntrySize(Merged[x]) : x \in 1..Len(Merged)})
Abs(x) == IF x < 0 THEN -x ELSE x
Half == IF Called("edubtm_SplitInternal") THEN BI_HALF ELSE BL_HALF

\* the source page was full on entry: the new item with its slot did not fit
WasFull ==
    Occupied(PreFpage) + EntrySize(ItemEntry) + SizeTwo > DataSize(PreFpage.type)

\* C12 as claimed: after every successful split the occupied bytes of the
\* source page and of the sibling differ by at most the size of the largest
\* merged entry (counted with its slot).
C12_FillBalance ==
    Succeeded =>
        Abs(Occupied(Fpage) - Occupied(Npage)) <= MaxEntrySize + SizeTwo

\* C12 as amended: after every successful split the source page is filled to
\* less than the half-fill threshold plus the largest merged entry and its
\* slot, and to at least the threshold when an entry went to the sibling; the
\* sibling holds the slots that are left.
C12_FillThreshold ==
    Succeeded =>
        /\ Occupied(Fpage) < Half + MaxEntrySize + SizeTwo
        /\ last.k >= 1 => Occupied(Fpage) >= Half
        /\ last.k = PreFpage.nSlots + 1 - last.j

\* a full internal page with keys of 12 and 16 bytes keeps both entries and
\* sends only the new item to the sibling
C12_Witness ==
    /\ Called("edubtm_SplitInternal") /\ Succeeded /\ WasFull
    /\ last.j = 2 /\ last.k = 1
    /\ Occupied(Fpage) - Occupied(Npage) > MaxEntrySize + SizeTwo

\* C13: after a successful internal split that routed an entry to the sibling,
\* the sibling's p0 is the child page id of the first merged entry routed to it.
C13_SiblingP0 ==
    (Called("edubtm_SplitInternal") /\ Succeeded /\ last.k >= 1) =>
        /\ Npage.p0 = Merged[last.j + 1].spid
        /\ (last.j + 1 = last.high => Npage.p0 = last.item.spid)
        /\ (last.j + 1 < last.high =>
               Npage.p0 = Entries(PreFpage)[last.j + 1].spid)
        /\ (last.j + 1 > last.high => Npage.p0 = Entries(PreFpage)[last.j].spid)

\* the new item is the first entry routed to the sibling, and two more follow
C13_Witness ==
    /\ Called("edubtm_SplitInternal") /\ Succeeded
    /\ last.k = 3 /\ last.j + 1 = last.high
    /\ Npage.p0 = 150 + last.high

\* the pages a successful call wrote
Written == {Fpage, Npage}

\* the entry stored at slot s (0-based) of a page, and its size in the layout
EntryOf(page, s) == Entries(page)[s + 1]
SizeIn(page, en) ==
    IF page.type = "internal" THEN InternalEntrySize(en) ELSE LeafEntrySize(en)
EndOf(page, s) == page.slot[s + 1] + SizeIn(page, EntryOf(page, s))

\* slots hold the start offsets of entries laid out back to back from offset 0,
\* free is the end of the last entry, and the entries end before the slots begin
SlotsContiguous(page) ==
    /\ page.nSlots >= 1 => page.slot[1] = 0
    /\ \A s \in 1..(page.nSlots - 1) : page.slot[s + 1] = EndOf(page, s - 1)
FreeAtEnd(page) ==
    page.free = IF page.nSlots = 0 THEN 0 ELSE EndOf(page, page.nSlots - 1)
NoDirectoryOverlap(page) ==
    page.free + page.nSlots * SizeTwo <= DataSize(page.type)

\* C14: after every successful split, in the source page and in the sibling,
\* slot s holds the start offset of the s-th entry, the entries lie back to back
\* from offset 0 without overlapping, hdr.free is the end offset of the last
\* entry, and the entry region does not reach into the slot directory.
C14_PageLayout ==
    Succeeded =>
        \A page \in Written :
            /\ SlotsContiguous(page)
            /\ FreeAtEnd(page)
            /\ NoDirectoryOverlap(page)

\* the bytes the loop reserved for the entry at slot s (0-based) of a page: the
\* distance from its start offset to the next start offset, or to hdr.free
Stride(page, s) ==
    (IF s = page.nSlots - 1 THEN page.free ELSE page.slot[s + 2])
        - page.slot[s + 1]

\* C15: every internal entry that edubtm_SplitInternal writes, old or new, on
\* the source page or on the sibling, occupies 4 + 2 + ALIGNED_LENGTH(klen)
\* bytes: the next entry starts that many bytes further.
C15_AlignedEntryLength ==
    (Called("edubtm_SplitInternal") /\ Succeeded) =>
        \A page \in Written : \A s \in 0..(page.nSlots - 1) :
            Stride(page, s) =
                SizeShortPageID + SizeTwo + ALIGNED_LENGTH(EntryOf(page, s).klen)

\* the entries of both pages after a successful split, source page first
Output == Entries(Fpage) \o Entries(Npage)

\* C16: every leaf entry that edubtm_SplitLeaf stores keeps its record count
\* and all the record pointers it had among the merged entries.
C16_PointerArraysKept ==
    (Called("edubtm_SplitLeaf") /\ Succeeded) =>
        /\ Len(Output) = Len(Merged)
        /\ \A x \in 1..Len(Merged) :
              /\ Output[x].nObjects = Merged[x].nObjects
              /\ Len(Output[x].oids) = Merged[x].nObjects
              /\ Output[x].oids = Merged[x].oids

\* what a split stored on a page: the slot count, hdr.free, the slots in use
\* and the bytes of the entry region
Stored(page) ==
    [nSlots |-> page.nSlots, free |-> page.free,
     slot |-> SubSeq(page.slot, 1, page.nSlots),
     data |-> SubSeq(page.data, 1, page.free)]

\* a second run of the last call on the same entries, item and high, with
\* another source page id, another sibling id and other prior sibling contents
OtherPids == {[fpid |-> 17, newPid |-> 19], [fpid |-> 22, newPid |-> 15]}
SecondRun(ids, frame) ==
    LET fpage  == [PreFpage EXCEPT !.pid = ids.fpid]
        npage0 == InitPage(PreFpage.type, ids.newPid, frame)
    IN  IF Called("edubtm_SplitInternal")
        THEN InternalSplit(fpage, npage0, last.high, last.item)
        ELSE LeafSplit(fpage, npage0, last.high, last.item)

\* C17: a second run given the same original entries, item and high but other
\* page ids and other prior sibling contents sends the same number of entries
\* to each side and stores the same slots and the same entry bytes on each side.
C17_PartitionDeterministic ==
    Succeeded =>
        \A ids \in OtherPids, frame \in PriorFrames :
            LET r == SecondRun(ids, frame)
            IN  /\ ids.fpid # last.fpid /\ ids.newPid # last.newPid
                /\ r.j = last.j /\ r.k = last.k
                /\ Stored(r.f) = Stored(Fpage)
                /\ Stored(r.n) = Stored(Npage)

\* the sibling of the last call was written over stale bytes and slots and
\* still received two entries
C17_Witness ==
    /\ Succeeded /\ last.k = 2 /\ last.j = 3
    /\ Npage.slot[5] = 6 /\ Npage.data[DataSize(Npage.type)] = 170

\* C18: a split call, successful or not, changes no page that existed on entry
\* other than the source page; the only page it adds is the sibling it
\* allocated, and the leaf that followed the source on entry is as it was.
C18_OtherPagesUntouched ==
    Returned =>
        /\ \A q \in DOMAIN last.pre : q # last.fpid => pages[q] = last.pre[q]
        /\ DOMAIN pages \ DOMAIN last.pre \subseteq {last.newPid}
        /\ PreFpage.nextPage # NIL =>
              pages[PreFpage.nextPage] = last.pre[PreFpage.nextPage]

\* a leaf with a next leaf was split and the sibling was linked in between
C18_Witness ==
    /\ Called("edubtm_SplitLeaf") /\ Succeeded /\ last.k >= 1
    /\ PreFpage.nextPage = 2 /\ Npage.nextPage = 2
    /\ pages[2] = last.pre[2] /\ pages[2].prevPage = last.fpid

----------------------------------------------------------------------------
(* The k-d tree of kdtree.h: KDTree<N, ElemType> with its nodes on the heap. *)

\* the template parameter N, the coordinates and the values of the model
N == 2
Coords == {0, 1}
Points == [1..N -> Coords]
Values == {0, 1, 2}
\* *(new ElemType()): the value-initialised element
DefaultValue == 0
\* nodes one tree may hold
MaxNodes == 3

PointEq_FirstCoordinate(one, two) == one[1] = two[1]
\* operator== of point.h: std::equal over the N coordinates
PointEq(one, two) == \A i \in 1..N : one[i] = two[i]

\* a freshly malloc'd node after its four assignments, and its address
NewNode(point, value) ==
    [point |-> point, value |-> value, left_child |-> NULL, right_child |-> NULL]
Malloc(h) == Len(h) + 1

\* point[index] of point.h, with index counted from 0
Coord(point, index) == point[index + 1]

\* the lookup and the insertion descend to the left only when the coordinate
\* of the point on dimension depth % N is strictly less than the node's
FindGoesLeft_OrEqual(point, nodePoint, depth) ==
    Coord(point, depth % N) <= Coord(nodePoint, depth % N)
FindGoesLeft(point, nodePoint, depth) ==
    Coord(point, depth % N) < Coord(nodePoint, depth % N)
InsertGoesLeft_OrEqual(point, nodePoint, depth) ==
    Coord(point, depth % N) <= Coord(nodePoint, depth % N)
InsertGoesLeft(point, nodePoint, depth) ==
    Coord(point, depth % N) < Coord(nodePoint, depth % N)

RECURSIVE findNode(_, _, _, _)
findNode(h, root, point, depth) ==
    IF root = NULL THEN NULL
    ELSE IF PointEq(h[root].point, point) THEN root
    ELSE IF FindGoesLeft(point, h[root].point, depth)
         THEN findNode(h, h[root].left_child, point, depth + 1)
         ELSE findNode(h, h[root].right_child, point, depth + 1)

\* insertNode on the tree t = [heap, size]: the tree after it and the node it
\* returns
RECURSIVE insertNode(_, _, _, _, _)
insertNode(t, root, point, value, depth) ==
    IF PointEq(t.heap[root].point, point)
    THEN [heap |-> [t.heap EXCEPT ![root].value = value],
          size |-> t.size, ret |-> root]
    ELSE IF InsertGoesLeft(point, t.heap[root].point, depth)
    THEN IF t.heap[root].left_child = NULL
         THEN [heap |-> Append([t.heap EXCEPT ![root].left_child = Malloc(t.heap)],
                               NewNode(point, value)),
               size |-> t.size + 1, ret |-> Malloc(t.heap)]
         ELSE insertNode(t, t.heap[root].left_child, point, value, depth + 1)
    ELSE IF t.heap[root].right_child = NULL
         THEN [heap |-> Append([t.heap EXCEPT ![root].right_child = Malloc(t.heap)],
                               NewNode(point, value)),
               size |-> t.size + 1, ret |-> Malloc(t.heap)]
         ELSE insertNode(t, t.heap[root].right_child, point, value, depth + 1)

\* the const member functions
dimension == N
size == head.size
empty == size = 0
contains(point) ==
    IF head.root # NULL THEN findNode(heap, head.root, point, 0) # NULL
    ELSE FALSE
\* the two ways at() ends: it returns a value or throws std::out_of_range
Returns(value) == [throws |-> "nothing", value |-> value]
OutOfRange == [throws |-> "out_of_range", value |-> DefaultValue]
valueAt_DefaultWhenMissing(h, hd, point) ==
    IF hd.root = NULL THEN OutOfRange
    ELSE LET node == findNode(h, hd.root, point, 0)
         IN  IF node = NULL THEN Returns(DefaultValue) ELSE Returns(h[node].value)
\* at(point) on the tree with nodes h and Head hd
valueAt(h, hd, point) ==
    IF hd.root = NULL THEN OutOfRange
    ELSE LET node == findNode(h, hd.root, point, 0)
         IN  IF node = NULL THEN OutOfRange ELSE Returns(h[node].value)
at(point) == valueAt(heap, head, point)

\* what a call records: its arguments, the node it returned, the tree before it
KDCall(op, point, value, ret) ==
    [op |-> op, point |-> point, value |-> value, ret |-> ret,
     pre |-> [heap |-> heap, head |-> head]]

\* a call may add a node only while the tree holds fewer than MaxNodes
Room(point) == head.size < MaxNodes \/ findNode(heap, head.root, point, 0) # NULL

\* void insert(point, value)
insert(point, value) ==
    /\ Room(point)
    /\ IF head.root = NULL
       THEN /\ heap' = Append(heap, NewNode(point, value))
            /\ head' = [size |-> head.size + 1, root |-> Malloc(heap)]
       ELSE LET r == insertNode([heap |-> heap, size |-> head.size],
                                head.root, point, value, 0)
            IN  /\ heap' = r.heap
                /\ head' = [head EXCEPT !.size = r.size]
    /\ klast' = KDCall("insert", point, value, NULL)
    /\ given' = given \cup {point}
    /\ UNCHANGED <<btvars, cpvars>>

\* ElemType& operator[](point): the node whose value the reference denotes
operatorIndex(point) ==
    LET node == findNode(heap, head.root, point, 0)
    IN  /\ Room(point)
        /\ IF node = NULL
           THEN IF head.root = NULL
                THEN /\ heap' = Append(heap, NewNode(point, DefaultValue))
                     /\ head' = [size |-> head.size + 1, root |-> Malloc(heap)]
                     /\ klast' = KDCall("operator[]", point, DefaultValue, Malloc(heap))
                ELSE LET r == insertNode([heap |-> heap, size |-> head.size],
                                         head.root, point, DefaultValue, 0)
                     IN  /\ heap' = r.heap
                         /\ head' = [head EXCEPT !.size = r.size]
                         /\ klast' = KDCall("operator[]", point, DefaultValue, r.ret)
           ELSE /\ UNCHANGED <<heap, head>>
                /\ klast' = KDCall("operator[]", point, heap[node].value, node)
        /\ given' = given \cup {point}
        /\ UNCHANGED <<btvars, cpvars>>

assignIndexed_ToRoot(value) ==
    /\ klast.op = "operator[]"
    /\ heap' = [heap EXCEPT ![head.root].value = value]
    /\ klast' = KDCall("assign", klast.point, value, klast.ret)
    /\ UNCHANGED <<head, given>>
    /\ UNCHANGED <<btvars, cpvars>>
\* kd[point] = value: the caller stores through the reference operator[] returned
assignIndexed(value) ==
    /\ klast.op = "operator[]"
    /\ heap' = [heap EXCEPT ![klast.ret].value = value]
    /\ klast' = KDCall("assign", klast.point, value, klast.ret)
    /\ UNCHANGED <<head, given>>
    /\ UNCHANGED <<btvars, cpvars>>

\* at(point), const and non-const: the tree is not touched, the call ends with
\* the exception or with a reference to the value of the node that holds the
\* point
atCall(point) ==
    /\ klast' = [op |-> "at", point |-> point, value |-> at(point).value,
                 ret |-> IF head.root = NULL THEN NULL
                         ELSE findNode(heap, head.root, point, 0),
                 pre |-> [heap |-> heap, head |-> head],
                 throws |-> at(point).throws]
    /\ UNCHANGED <<heap, head, given>>
    /\ UNCHANGED <<btvars, cpvars>>

\* kd.at(point) = value: the caller stores through the reference the non-const
\* at() returned
assignAt(value) ==
    /\ klast.op = "at" /\ klast.throws = "nothing"
    /\ heap' = [heap EXCEPT ![klast.ret].value = value]
    /\ klast' = KDCall("at=", klast.point, value, klast.ret)
    /\ UNCHANGED <<head, given>>
    /\ UNCHANGED <<btvars, cpvars>>

KDTree_at == \E point \in Points : atCall(point)
KDTree_assignAt == \E value \in Values : assignAt(value)
KDTree_insert == \E point \in Points, value \in Values : insert(point, value)
KDTree_operatorIndex == \E point \in Points : operatorIndex(point)
KDTree_assignIndexed == \E value \in Values : assignIndexed(value)

InitKD ==
    /\ pages = <<>> /\ fixed = <<>> /\ ncalls = 0 /\ errs = 0 /\ last = NoCall
    /\ KDTree
    /\ NoClone

NextKD ==
    \/ KDTree_insert
    \/ KDTree_operatorIndex
    \/ KDTree_assignIndexed
    \/ KDTree_at
    \/ KDTree_assignAt

SpecKD == InitKD /\ [][NextKD]_vars

\* the shape of the k-d tree state
TypeOKKD ==
    /\ head.size \in 0..MaxNodes
    /\ head.root \in 0..Len(heap)
    /\ Len(heap) <= MaxNodes
    /\ \A a \in 1..Len(heap) :
          /\ heap[a].point \in Points
          /\ heap[a].value \in Values
          /\ heap[a].left_child \in 0..Len(heap)
          /\ heap[a].right_child \in 0..Len(heap)
    /\ given \subseteq Points

----------------------------------------------------------------------------
(* Two KDTree objects: kd, and a second one that is constructed, copied     *)
(* from kd, used and destroyed.                                             *)

\* calls made on the second object in one run
MaxCopyOps == 3

inserted_RootNotCounted(h, hd, point, value) ==
    IF hd.root = NULL
    THEN [heap |-> Append(h, NewNode(point, value)),
          head |-> [size |-> hd.size, root |-> Malloc(h)]]
    ELSE LET r == insertNode([heap |-> h, size |-> hd.size],
                             hd.root, point, value, 0)
         IN  [heap |-> r.heap, head |-> [hd EXCEPT !.size = r.size]]
\* insert(point, value) on the object with Head hd: the nodes and the Head
\* after it
inserted(h, hd, point, value) ==
    IF hd.root = NULL
    THEN [heap |-> Append(h, NewNode(point, value)),
          head |-> [size |-> hd.size + 1, root |-> Malloc(h)]]
    ELSE LET r == insertNode([heap |-> h, size |-> hd.size],
                             hd.root, point, value, 0)
         IN  [heap |-> r.heap, head |-> [hd EXCEPT !.size = r.size]]

copyNode_Shallow(h, src) == [heap |-> h, ret |-> src]
\* copyNode(dst, src): a new node with the point and the value of *src, then
\* the copies of the left and of the right subtree; the nodes after it and
\* the address stored in *dst
RECURSIVE copyNode(_, _)
copyNode(h, src) ==
    LET dst == Malloc(h)
        h1 == Append(h, NewNode(h[src].point, h[src].value))
        l == IF h[src].left_child # NULL
             THEN copyNode(h1, h[src].left_child)
             ELSE [heap |-> h1, ret |-> NULL]
        r == IF h[src].right_child # NULL
             THEN copyNode(l.heap, h[src].right_child)
             ELSE [heap |-> l.heap, ret |-> NULL]
    IN  [heap |-> [r.heap EXCEPT ![dst].left_child = l.ret,
                                 ![dst].right_child = r.ret],
         ret |-> dst]

\* operator=(rhs) on another object: the size is taken over and the nodes are
\* copied; the nodes the object held are neither freed nor reused
assigned(h, rhs) ==
    IF rhs.root # NULL
    THEN LET c == copyNode(h, rhs.root)
         IN  [heap |-> c.heap, head |-> [size |-> rhs.size, root |-> c.ret]]
    ELSE [heap |-> h, head |-> [size |-> rhs.size, root |-> NULL]]

\* deleteNode(root): the addresses it frees, one head.size-- for each
RECURSIVE deleteNode(_, _)
deleteNode(h, root) ==
    (IF h[root].left_child # NULL THEN deleteNode(h, h[root].left_child) ELSE {})
    \cup (IF h[root].right_child # NULL THEN deleteNode(h, h[root].right_child) ELSE {})
    \cup {root}

\* what a call on the second object records
CloneCall(op, point, value, ret) ==
    [op |-> op, point |-> point, value |-> value, ret |-> ret,
     pre |-> [heap |-> heap, head |-> head], preClone |-> clone]

CloneMayCall == kops < MaxCopyOps
CloneCalled == kops' = kops + 1
CloneRoom(point) ==
    clone.head.size < MaxNodes \/ findNode(heap, clone.head.root, point, 0) # NULL

\* KDTree<N, ElemType> clone;
constructClone ==
    /\ CloneMayCall /\ clone.state = "none"
    /\ clone' = [state |-> "live", head |-> [size |-> 0, root |-> NULL]]
    /\ klast' = CloneCall("KDTree()", <<>>, 0, NULL)
    /\ CloneCalled
    /\ UNCHANGED <<heap, head, given, freed, btvars>>

\* KDTree<N, ElemType> clone = kd;
copyConstruct ==
    /\ CloneMayCall /\ clone.state = "none"
    /\ heap' = assigned(heap, head).heap
    /\ clone' = [state |-> "live", head |-> assigned(heap, head).head]
    /\ klast' = CloneCall("KDTree(rhs)", <<>>, 0, NULL)
    /\ CloneCalled
    /\ UNCHANGED <<head, given, freed, btvars>>

\* clone = kd;
copyAssign ==
    /\ CloneMayCall /\ clone.state = "live"
    /\ heap' = assigned(heap, head).heap
    /\ clone' = [clone EXCEPT !.head = assigned(heap, head).head]
    /\ klast' = CloneCall("operator=", <<>>, 0, NULL)
    /\ CloneCalled
    /\ UNCHANGED <<head, given, freed, btvars>>

\* kd = kd; this == &rhs and nothing is done
selfAssign ==
    /\ CloneMayCall
    /\ klast' = CloneCall("self=", <<>>, 0, NULL)
    /\ CloneCalled
    /\ UNCHANGED <<heap, head, given, clone, freed, btvars>>

\* clone.insert(point, value)
cloneInsert(point, value) ==
    /\ CloneMayCall /\ clone.state = "live" /\ CloneRoom(point)
    /\ heap' = inserted(heap, clone.head, point, value).heap
    /\ clone' = [clone EXCEPT !.head = inserted(heap, clone.head, point, value).head]
    /\ klast' = CloneCall("clone.insert", point, value, NULL)
    /\ CloneCalled
    /\ UNCHANGED <<head, given, freed, btvars>>

\* clone[point]
cloneIndex(point) ==
    LET node == findNode(heap, clone.head.root, point, 0)
        t == inserted(heap, clone.head, point, DefaultValue)
    IN  /\ CloneMayCall /\ clone.state = "live" /\ CloneRoom(point)
        /\ IF node = NULL
           THEN /\ heap' = t.heap
                /\ clone' = [clone EXCEPT !.head = t.head]
                /\ klast' = CloneCall("clone[]", point, DefaultValue, Len(t.heap))
           ELSE /\ UNCHANGED <<heap, clone>>
                /\ klast' = CloneCall("clone[]", point, heap[node].value, node)
        /\ CloneCalled
        /\ UNCHANGED <<head, given, freed, btvars>>

\* clone[point] = value
cloneAssignIndexed(value) ==
    /\ CloneMayCall /\ clone.state = "live" /\ klast.op = "clone[]"
    /\ heap' = [heap EXCEPT ![klast.ret].value = value]
    /\ klast' = CloneCall("clone.assign", klast.point, value, klast.ret)
    /\ CloneCalled
    /\ UNCHANGED <<head, given, clone, freed, btvars>>

\* the second object goes out of scope
destroyClone ==
    LET gone == IF clone.head.root # NULL
                THEN deleteNode(heap, clone.head.root) ELSE {}
    IN  /\ CloneMayCall /\ clone.state = "live"
        /\ freed' = freed \cup gone
        /\ clone' = [state |-> "destroyed",
                     head |-> [clone.head EXCEPT !.size = @ - Cardinality(gone)]]
        /\ klast' = CloneCall("~KDTree()", <<>>, 0, NULL)
        /\ CloneCalled
        /\ UNCHANGED <<heap, head, given, btvars>>

KDTree_cloneInsert == \E point \in Points, value \in Values : cloneInsert(point, value)
KDTree_cloneIndex == \E point \in Points : cloneIndex(point)
KDTree_cloneAssignIndexed == \E value \in Values : cloneAssignIndexed(value)

\* the sequences of distinct points kd may have been built from
PointSeqs ==
    {s \in UNION {[1..n -> Points] : n \in 0..MaxNodes} :
        \A i, j \in DOMAIN s : i # j => s[i] # s[j]}

\* kd after insert(s[1], 1), insert(s[2], 2), ... on a new tree
RECURSIVE Built(_)
Built(s) ==
    IF s = <<>> THEN [heap |-> <<>>, head |-> [size |-> 0, root |-> NULL]]
    ELSE LET t == Built(SubSeq(s, 1, Len(s) - 1))
         IN  inserted(t.heap, t.head, s[Len(s)], Len(s) % 3)

InitKDCopy ==
    /\ pages = <<>> /\ fixed = <<>> /\ ncalls = 0 /\ errs = 0 /\ last = NoCall
    /\ \E s \in PointSeqs :
          /\ heap = Built(s).heap
          /\ head = Built(s).head
          /\ given = {s[i] : i \in DOMAIN s}
    /\ klast = NoKDCall
    /\ NoClone

NextKDCopy ==
    \/ constructClone
    \/ copyConstruct
    \/ copyAssign
    \/ selfAssign
    \/ KDTree_cloneInsert
    \/ KDTree_cloneIndex
    \/ KDTree_cloneAssignIndexed
    \/ destroyClone

SpecKDCopy == InitKDCopy /\ [][NextKDCopy]_vars

----------------------------------------------------------------------------
(* kNNValue: the bounded priority queue, the pruned search, the vote.       *)

\* the coordinates of the keys of a query
KeyCoords == {0, 1, 2}
KeyPoints == [1..N -> KeyCoords]

\* distance(one, two) of point.h is the square root of this sum. The queue
\* only orders its priorities and line 337 compares a distance with the
\* absolute value of a coordinate difference, so the model keeps the squares:
\* sqrt(x) < sqrt(y) exactly when x < y, and fabs(d) < sqrt(y) exactly when
\* d * d < y.
RECURSIVE SumSquares(_, _, _)
SumSquares(one, two, i) ==
    IF i = 0 THEN 0
    ELSE SumSquares(one, two, i - 1) + (one[i] - two[i]) * (one[i] - two[i])
distance2(one, two) == SumSquares(one, two, N)

\* BoundedPriorityQueue<ElemType> bpq(k): at most maxSize values, kept in the
\* order of their priorities
BoundedPriorityQueue(k) == [maxSize |-> k, elems |-> <<>>]
\* where equal priorities are placed relative to each other
TiePolicies == {"after", "before"}
\* enqueue(value, priority): the value is placed by its priority and, when the
\* queue then holds more than maxSize values, the one of worst priority leaves
enqueue(bpq, value, priority, tie) ==
    LET e == bpq.elems
        pos == Cardinality({i \in 1..Len(e) :
                   IF tie = "after" THEN e[i].priority <= priority
                   ELSE e[i].priority < priority})
        ins == SubSeq(e, 1, pos) \o <<[value |-> value, priority |-> priority]>>
               \o SubSeq(e, pos + 1, Len(e))
    IN  [bpq EXCEPT !.elems = IF Len(ins) > bpq.maxSize
                              THEN SubSeq(ins, 1, bpq.maxSize) ELSE ins]
\* worst(): the largest priority in the queue
worst(bpq) == bpq.elems[Len(bpq.elems)].priority

FarSideSearched_OnlyWhileNotFull(bpq, key, nodePoint, index) ==
    Len(bpq.elems) < bpq.maxSize
\* line 337: the other subtree is searched while the queue is not full or the
\* splitting plane is nearer than the worst point in the queue
FarSideSearched(bpq, key, nodePoint, index) ==
    \/ Len(bpq.elems) < bpq.maxSize
    \/ (Coord(key, index) - Coord(nodePoint, index))
         * (Coord(key, index) - Coord(nodePoint, index)) < worst(bpq)

\* searchKNNValue(root, key, bpq, depth): the queue after it
RECURSIVE searchKNNValue(_, _, _, _, _, _)
searchKNNValue(h, root, key, bpq, depth, tie) ==
    IF root = NULL THEN bpq
    ELSE LET index == depth % N
             goLeft == Coord(key, index) < Coord(h[root].point, index)
             near == IF goLeft THEN h[root].left_child ELSE h[root].right_child
             far == IF goLeft THEN h[root].right_child ELSE h[root].left_child
             q1 == enqueue(bpq, h[root].value, distance2(h[root].point, key), tie)
             q2 == searchKNNValue(h, near, key, q1, depth + 1, tie)
         IN  IF FarSideSearched(q2, key, h[root].point, index)
             THEN searchKNNValue(h, far, key, q2, depth + 1, tie)
             ELSE q2

\* value_set.count(v) after every value of the queue was dequeued into it
CountIn(bpq, v) == Cardinality({i \in 1..Len(bpq.elems) : bpq.elems[i].value = v})
\* decideKNNValue(bpq): the values it can return. The multiset is walked in
\* increasing order and a value replaces the choice only with a strictly
\* larger count; with an empty queue KNNValue is returned uninitialised.
decideKNNValue(bpq) ==
    IF bpq.elems = <<>> THEN Values
    ELSE {v \in Values :
             /\ CountIn(bpq, v) > 0
             /\ \A w \in Values : CountIn(bpq, w) <= CountIn(bpq, v)
             /\ \A w \in Values : w < v => CountIn(bpq, w) < CountIn(bpq, v)}

\* ElemType kNNValue(key, k) const. The call changes nothing in the tree, so
\* one query is made on each tree.
kNNValue(key, k) ==
    /\ klast.op = "none"
    /\ \E tie \in TiePolicies :
        LET bpq == searchKNNValue(heap, head.root, key,
                                  BoundedPriorityQueue(k), 0, tie)
        IN  \E ret \in decideKNNValue(bpq) :
                /\ klast' = [op |-> "kNNValue", point |-> key, value |-> ret,
                             ret |-> NULL, pre |-> [heap |-> heap, head |-> head],
                             k |-> k, bpq |-> bpq]
                /\ UNCHANGED <<heap, head, given>>
                /\ UNCHANGED <<btvars, cpvars>>

KDTree_kNNValue == \E key \in KeyPoints, k \in 1..MaxNodes : kNNValue(key, k)

\* kd after insert(s[1], v[1]), insert(s[2], v[2]), ... on a new tree
RECURSIVE BuiltWith(_, _)
BuiltWith(s, v) ==
    IF s = <<>> THEN [heap |-> <<>>, head |-> [size |-> 0, root |-> NULL]]
    ELSE LET t == BuiltWith(SubSeq(s, 1, Len(s) - 1), v)
         IN  inserted(t.heap, t.head, s[Len(s)], v[Len(s)])

InitKNN ==
    /\ pages = <<>> /\ fixed = <<>> /\ ncalls = 0 /\ errs = 0 /\ last = NoCall
    /\ \E s \in PointSeqs : \E v \in [DOMAIN s -> Values] :
          /\ heap = BuiltWith(s, v).heap
          /\ head = BuiltWith(s, v).head
          /\ given = {s[i] : i \in DOMAIN s}
    /\ klast = NoKDCall
    /\ NoClone

NextKNN == KDTree_kNNValue

SpecKNN == InitKNN /\ [][NextKNN]_vars

----------------------------------------------------------------------------
(* C19, C20                                                                 *)

\* at(point) on the tree as it was before the last call
PreValue(point) == valueAt(klast.pre.heap, klast.pre.head, point)
PreSize == klast.pre.head.size

\* C19: a newly constructed tree has size 0 and is empty; after insert(p, v),
\* at(p) is v, the size is one more than before when p was not in the tree and
\* the same when it was, and at(q) of every other point q is what it was.
C19_Insert ==
    /\ klast.op = "none" => (size = 0 /\ empty /\ head.root = NULL)
    /\ klast.op = "insert" =>
          /\ at(klast.point) = Returns(klast.value)
          /\ PreValue(klast.point) = OutOfRange => size = PreSize + 1
          /\ PreValue(klast.point) # OutOfRange => size = PreSize
          /\ \A q \in Points \ {klast.point} : at(q) = PreValue(q)

\* an insert overwrote the value 1 of a point two levels below the root with 2
C19_Witness ==
    /\ klast.op = "insert" /\ PreValue(klast.point) = Returns(1) /\ klast.value = 2
    /\ size = 3 /\ PreSize = 3
    /\ findNode(heap, head.root, klast.point, 0) = 3
    /\ heap[2].left_child = 3 \/ heap[2].right_child = 3

\* C20: contains(p) is true exactly for the points handed to an earlier insert
\* or operator[] call, also for points that agree with an ancestor on the
\* ancestor's splitting dimension.
C20_Contains ==
    \A p \in Points : contains(p) <=> p \in given

\* the tree holds a point that agrees with the root on dimension 0 and another
\* below it that agrees with its parent on dimension 1
C20_Witness ==
    /\ Len(heap) = 3 /\ given = {heap[1].point, heap[2].point, heap[3].point}
    /\ heap[1].right_child = 2 /\ Coord(heap[2].point, 0) = Coord(heap[1].point, 0)
    /\ heap[2].right_child = 3 /\ Coord(heap[3].point, 1) = Coord(heap[2].point, 1)
    /\ contains(heap[2].point) /\ contains(heap[3].point)
    /\ \E p \in Points : ~contains(p)

----------------------------------------------------------------------------
(* C21..C30                                                                 *)

\* the addresses of the nodes of the subtree at root
RECURSIVE Subtree(_, _)
Subtree(h, root) ==
    IF root = NULL THEN {}
    ELSE {root} \cup Subtree(h, h[root].left_child)
                \cup Subtree(h, h[root].right_child)

\* the nodes of the tree that hold the point
Holders(point) == {a \in Subtree(heap, head.root) : heap[a].point = point}

\* C21: at(p) returns the value of the node that holds p when the tree has
\* one and throws out_of_range when it has none, for the empty tree too; the
\* call leaves the size, the root and every node as they were. What the
\* non-const at(p) returns is a reference to that node's value: a value stored
\* through it is what at(p) returns afterwards, and nothing else changes.
C21_At ==
    /\ klast.op = "at" =>
          /\ Holders(klast.point) # {} =>
                /\ klast.throws = "nothing"
                /\ klast.ret \in Holders(klast.point)
                /\ \A a \in Holders(klast.point) : klast.value = heap[a].value
          /\ Holders(klast.point) = {} =>
                klast.throws = "out_of_range" /\ klast.ret = NULL
          /\ klast.point \in given <=> klast.throws = "nothing"
          /\ heap = klast.pre.heap /\ head = klast.pre.head
          /\ Len(heap) = size
    /\ klast.op = "at=" =>
          /\ at(klast.point) = Returns(klast.value)
          /\ PreValue(klast.point) # OutOfRange
          /\ size = PreSize /\ head = klast.pre.head
          /\ \A q \in Points \ {klast.point} : at(q) = PreValue(q)

\* at() threw on a tree of three nodes
C21_Witness ==
    /\ klast.op = "at" /\ klast.throws = "out_of_range"
    /\ size = 3 /\ klast.point \notin given
    /\ heap = klast.pre.heap

\* C22: operator[](p) adds p with the default value and raises the size by one
\* when p was not in the tree, and leaves the tree as it was when p was in it;
\* the reference it returns is to the node that holds p; a value stored
\* through the reference is what at(p) returns afterwards and sits in the node
\* a later operator[](p) returns; no other point's value changes.
C22_OperatorIndex ==
    /\ klast.op = "operator[]" =>
          /\ klast.ret \in Holders(klast.point)
          /\ klast.ret = findNode(heap, head.root, klast.point, 0)
          /\ PreValue(klast.point) = OutOfRange =>
                /\ size = PreSize + 1
                /\ at(klast.point) = Returns(0)
          /\ PreValue(klast.point) # OutOfRange =>
                /\ size = PreSize
                /\ heap = klast.pre.heap
                /\ Returns(heap[klast.ret].value) = PreValue(klast.point)
          /\ \A q \in Points \ {klast.point} : at(q) = PreValue(q)
    /\ klast.op = "assign" =>
          /\ at(klast.point) = Returns(klast.value)
          /\ findNode(heap, head.root, klast.point, 0) = klast.ret
          /\ heap[klast.ret].value = klast.value
          /\ size = PreSize
          /\ \A q \in Points \ {klast.point} : at(q) = PreValue(q)

\* the value 1 of the third node was replaced by 2 through the reference
C22_Witness ==
    /\ klast.op = "assign" /\ klast.ret = 3 /\ klast.value = 2
    /\ PreValue(klast.point) = Returns(1)
    /\ size = 3 /\ head.root = 1

\* the nodes of kd and the nodes of the second object
KdNodes == Subtree(heap, head.root)
CloneNodes == Subtree(heap, clone.head.root)
\* kd is what it was before the last call: its Head, its nodes, none freed
KdAsBefore ==
    /\ head = klast.pre.head
    /\ \A a \in KdNodes : heap[a] = klast.pre.heap[a] /\ a \notin freed
    /\ size = PreSize
    /\ \A q \in Points : at(q) = PreValue(q)
    /\ \A q \in Points : contains(q) <=> q \in given

\* C23: right after a copy construction or an assignment the copy has the
\* size of the original, at() gives the same on both for every point, and the
\* two share no node; insert, operator[], a store through the reference and
\* the destruction of the copy leave the original's Head, nodes, size,
\* membership and values as they were; self-assignment changes nothing.
C23_DeepCopy ==
    /\ klast.op \in {"KDTree(rhs)", "operator="} =>
          /\ clone.head.size = size
          /\ Cardinality(CloneNodes) = size
          /\ \A q \in Points : valueAt(heap, clone.head, q) = at(q)
          /\ CloneNodes \cap KdNodes = {}
          /\ KdAsBefore
    /\ klast.op \in {"clone.insert", "clone[]", "clone.assign", "~KDTree()"} =>
          KdAsBefore
    /\ klast.op = "~KDTree()" => freed \cap KdNodes = {}
    /\ klast.op = "self=" =>
          /\ heap = klast.pre.heap /\ head = klast.pre.head
          /\ clone = klast.preClone

\* the copy of a tree of three nodes had the value of its root replaced and
\* was then destroyed, and the original still holds its own value there
C23_Witness ==
    /\ klast.op = "~KDTree()" /\ size = 3 /\ kops = 3
    /\ Cardinality(freed) = 3
    /\ \E a \in freed : /\ heap[a].point = heap[head.root].point
                        /\ heap[a].value # heap[head.root].value

\* the stored points at squared distance d from the key of the last query,
\* and those nearer
AtDistance(d) == {a \in KdNodes : distance2(heap[a].point, klast.point) = d}
Nearer(d) == {a \in KdNodes : distance2(heap[a].point, klast.point) < d}
MinOf(a, b) == IF a < b THEN a ELSE b
\* v is a most frequent value among the nodes S
MostFrequent(v, S) ==
    /\ \E a \in S : heap[a].value = v
    /\ \A w \in Values : Cardinality({a \in S : heap[a].value = w})
                            <= Cardinality({a \in S : heap[a].value = v})
\* the sets of min(k, size) stored points nearest to the key
NearestSets ==
    {S \in SUBSET KdNodes :
        /\ Cardinality(S) = MinOf(klast.k, size)
        /\ \A a \in S, b \in KdNodes \ S :
              distance2(heap[a].point, klast.point)
                 <= distance2(heap[b].point, klast.point)}

\* C24: on a non-empty tree kNNValue(key, k) returns a most frequent value
\* among min(k, size) stored points nearest to the key; the search leaves the
\* queue with the distances of exactly those points, so no strictly nearer
\* point is missed; kNNValue(p, 1) of a stored p is p's value; with
\* k >= size the result is a most frequent value of the whole tree.
C24_KNNValue ==
    (klast.op = "kNNValue" /\ head.root # NULL) =>
        /\ \E S \in NearestSets : MostFrequent(klast.value, S)
        /\ Len(klast.bpq.elems) = MinOf(klast.k, size)
        /\ \A d \in 0..(4 * N) :
              Cardinality({i \in 1..Len(klast.bpq.elems) :
                              klast.bpq.elems[i].priority = d})
                 = LET room == MinOf(klast.k, size) - Cardinality(Nearer(d))
                   IN  IF room <= 0 THEN 0
                       ELSE MinOf(room, Cardinality(AtDistance(d)))
        /\ (klast.k = 1 /\ contains(klast.point)) =>
              Returns(klast.value) = at(klast.point)
        /\ klast.k >= size => MostFrequent(klast.value, KdNodes)
        /\ heap = klast.pre.heap /\ head = klast.pre.head

\* a query for two neighbours on a tree of three points found the second of
\* them on the far side of the root, whose own point is farther and was
\* pushed out of the queue
C24_Witness ==
    /\ klast.op = "kNNValue" /\ klast.k = 2 /\ size = 3
    /\ LET r == heap[head.root]
       IN  /\ distance2(r.point, klast.point) = 2
           /\ r.left_child # NULL /\ r.right_child # NULL
           /\ Coord(klast.point, 0) < Coord(r.point, 0)
           /\ distance2(heap[r.right_child].point, klast.point) = 1
           /\ distance2(heap[r.left_child].point, klast.point) = 1
    /\ Len(klast.bpq.elems) = 2 /\ worst(klast.bpq) = 1

\* the running occupied size before the entry at merged position m (1-based)
\* is placed: the entries before it, each with its length in the page layout
\* and one slot
RECURSIVE LayoutBefore(_)
LayoutBefore(m) ==
    IF m = 1 THEN 0
    ELSE LayoutBefore(m - 1) + EntrySize(Merged[m - 1]) + SizeTwo
\* the page where the entry at merged position m is found after the split
SameKey(en, other) == en.klen = other.klen /\ en.kval = other.kval
OnSource(m) == m <= Fpage.nSlots /\ SameKey(EntryOf(Fpage, m - 1), Merged[m])
OnSibling(m) ==
    /\ m > last.j /\ m - last.j <= Npage.nSlots
    /\ SameKey(EntryOf(Npage, m - last.j - 1), Merged[m])

\* C25: after a successful split the entry at merged position m is on the
\* source page exactly when the entries before it, each counted with its
\* length and one slot, stay below the half-fill threshold, and on the sibling
\* otherwise; behind an entry on the sibling every entry is on the sibling.
C25_SingleCutPoint ==
    Succeeded =>
        /\ \A m \in 1..Len(Merged) :
              /\ OnSource(m) <=> LayoutBefore(m) < Half
              /\ OnSibling(m) <=> ~OnSource(m)
        /\ \A m \in 1..Len(Merged), x \in 1..Len(Merged) :
              (OnSibling(m) /\ x > m) => OnSibling(x)

\* the external calls of one split in the order of the code
StepOrder ==
    <<"btm_AllocPage",
      IF Called("edubtm_SplitInternal") THEN "edubtm_InitInternal"
      ELSE "edubtm_InitLeaf",
      "BfM_GetTrain", "BfM_FreeTrain">>
\* allocation, initialisation and pin were all made and all succeeded
Prepared ==
    /\ Len(last.calls) >= 3
    /\ \A x \in 1..3 : last.calls[x].e = eNOERROR
\* the entries were redistributed
Redistributed == Returned /\ last.fail \in {"none", "unpin"}
\* the length the loop gave the entry at merged position m (1-based): the
\* distance from its slot to the next slot, or to hdr.free for the last one
WrittenLen(m) ==
    IF m <= last.j THEN Stride(Fpage, m - 1) ELSE Stride(Npage, m - last.j - 1)
\* the bytes stored for the entry at merged position m
WrittenBytes(m) ==
    IF m <= last.j THEN Bytes(Fpage.data, Fpage.slot[m], WrittenLen(m))
    ELSE Bytes(Npage.data, Npage.slot[m - last.j], WrittenLen(m))
\* the slot (1-based) the entry at merged position m had on the source page
OriginalSlot(m) == IF m < last.high THEN m ELSE m - 1

\* C26: the calls of one split are a prefix of allocate, initialise, pin,
\* unpin, each made once and only after the calls before it succeeded; unless
\* the first three succeeded the source page is as it was and the sibling
\* holds no entry and no entry byte; after them the entries are redistributed
\* and the sibling is unpinned; every old entry is stored with the bytes it
\* had on the source page on entry, also where the page was overwritten
\* before the entry was copied.
C26_StepOrder ==
    Returned =>
        /\ Len(last.calls) \in 1..4
        /\ \A x \in 1..Len(last.calls) : last.calls[x].call = StepOrder[x]
        /\ \A x \in 1..(Len(last.calls) - 1) : last.calls[x].e = eNOERROR
        /\ ~Prepared =>
              /\ ~Redistributed
              /\ Fpage = PreFpage
              /\ last.newPid \in DOMAIN pages =>
                    /\ Npage.nSlots = 0 /\ Npage.free = 0
                    /\ Npage.data \in {<<>>, Fill(DataSize(PreFpage.type), 0)}
        /\ Prepared => (Redistributed /\ Len(last.calls) = 4)
        /\ Redistributed =>
              \A m \in 1..Len(Merged) :
                  m # last.high =>
                      WrittenBytes(m) =
                          Bytes(PreFpage.data, PreFpage.slot[OriginalSlot(m)],
                                WrittenLen(m))

\* the item went to offset 0 of the source page, over the old first entry,
\* which was then stored behind it and a later one on the sibling
C26_Witness ==
    /\ Succeeded /\ last.high = 1 /\ last.j >= 2 /\ last.k >= 1
    /\ Len(last.calls) = 4
    /\ Fpage.slot[1] = 0 /\ PreFpage.slot[1] = 0
    /\ Bytes(Fpage.data, 0, 8) # Bytes(PreFpage.data, 0, 8)
    /\ WrittenBytes(2) = Bytes(PreFpage.data, 0, WrittenLen(2))

\* C27: after every successful split (the thresholds are positive and high is
\* in 1..n+1) the source page keeps at least one entry: the first merged entry
\* is stored at offset 0 through slot 0 of the source page, whatever its size.
C27_SourceKeepsFirst ==
    Succeeded =>
        /\ BI_HALF > 0 /\ BL_HALF > 0
        /\ last.high \in 1..(PreFpage.nSlots + 1)
        /\ last.j >= 1 /\ Fpage.nSlots >= 1
        /\ Fpage.slot[1] = 0
        /\ SameKey(EntryOf(Fpage, 0), Merged[1])
        /\ Called("edubtm_SplitInternal") =>
              EntryOf(Fpage, 0).spid = Merged[1].spid
        /\ Called("edubtm_SplitLeaf") =>
              /\ EntryOf(Fpage, 0).nObjects = Merged[1].nObjects
              /\ EntryOf(Fpage, 0).oids[1] = Merged[1].oids[1]

\* the new item is the first merged entry: it is stored at slot 0 of the
\* source page and later entries went to the sibling
C27_Witness ==
    /\ Succeeded /\ last.high = 1 /\ last.k >= 1
    /\ Fpage.slot[1] = 0 /\ Fpage.nSlots = last.j
    /\ SameKey(EntryOf(Fpage, 0), ItemEntry)

\* the up-entry and p0 are those of the first entry routed to the sibling
UpFromRouted ==
    /\ last.ritem.klen = Merged[last.j + 1].klen
    /\ SubSeq(last.ritem.kval, 1, last.ritem.klen) = Merged[last.j + 1].kval
    /\ Called("edubtm_SplitInternal") => Npage.p0 = Merged[last.j + 1].spid
\* the up-entry and p0 are read at slot 0 of a sibling without entries
UpFromEmpty ==
    /\ Npage.nSlots = 0 /\ Npage.free = 0
    /\ Called("edubtm_SplitInternal") =>
          /\ Npage.p0 = DecFour(Npage.data, Npage.slot[1])
          /\ last.ritem.klen = DecTwo(Npage.data, Npage.slot[1] + SizeShortPageID)
    /\ Called("edubtm_SplitLeaf") =>
          last.ritem.klen = DecTwo(Npage.data, Npage.slot[1] + SizeTwo)

\* C28: after a successful split the sibling holds an entry exactly when the
\* first n of the n + 1 merged entries, each counted with its length and one
\* slot, reach the half-fill threshold; then the up-entry and p0 are those of
\* the first entry the split stored on the sibling, and otherwise they are
\* what slot 0 of the entry-less sibling points at.
C28_SiblingNonEmpty ==
    Succeeded =>
        /\ last.k >= 1 <=> LayoutBefore(Len(Merged)) >= Half
        /\ last.k >= 1 => UpFromRouted
        /\ last.k = 0 => UpFromEmpty

\* the Heads of the KDTree objects that exist
LiveHeads == {head} \cup (IF clone.state = "live" THEN {clone.head} ELSE {})

\* C29: after any sequence of insert, operator[], stores through its
\* reference and assignments, size() of a tree is the number of nodes
\* reachable from its root, and no two of them hold equal points.
C29_SizeIsNodeCount ==
    \A hd \in LiveHeads :
        /\ hd.size = Cardinality(Subtree(heap, hd.root))
        /\ \A a, b \in Subtree(heap, hd.root) :
              a # b => ~PointEq(heap[a].point, heap[b].point)
        /\ Subtree(heap, hd.root) \cap freed = {}

\* a copy of a two-point tree that got a third point by insert and
\* then had the value of one of its points replaced by another insert
C29_Witness ==
    /\ klast.op = "clone.insert" /\ kops = 3 /\ size = 2
    /\ clone.state = "live" /\ clone.head.size = 3
    /\ klast.preClone.head.size = 3
    /\ Cardinality(CloneNodes) = 3

\* the k-d ordering below the node at root, which lies at the given depth
RECURSIVE Ordered(_, _, _)
Ordered(h, root, depth) ==
    IF root = NULL THEN TRUE
    ELSE /\ \A a \in Subtree(h, h[root].left_child) :
               Coord(h[a].point, depth % N) < Coord(h[root].point, depth % N)
         /\ \A a \in Subtree(h, h[root].right_child) :
               Coord(h[a].point, depth % N) >= Coord(h[root].point, depth % N)
         /\ Ordered(h, h[root].left_child, depth + 1)
         /\ Ordered(h, h[root].right_child, depth + 1)

\* C30: after any sequence of insert, operator[] and copy operations every
\* node at depth d has only points with a strictly smaller coordinate on
\* dimension d mod N in its left subtree and only points with a coordinate
\* greater than or equal to its own in its right subtree.
C30_KdOrdering ==
    \A hd \in LiveHeads : Ordered(heap, hd.root, 0)

\* a copy that then received a point which agrees with the root on dimension
\* 0 and was placed two levels down on the right
C30_Witness ==
    /\ clone.state = "live" /\ klast.op \in {"clone.insert", "clone[]"}
    /\ clone.head.size = 3 /\ klast.preClone.head.size = 2
    /\ LET r == heap[clone.head.root]
       IN  /\ r.right_child # NULL
           /\ heap[r.right_child].left_child # NULL
           /\ heap[heap[r.right_child].left_child].point = klast.point
           /\ Coord(klast.point, 0) = Coord(r.point, 0)
           /\ Coord(klast.point, 1) < Coord(heap[r.right_child].point, 1)

====
